---- MODULE Spec2Model ----
(***************************************************************************)
(* Model of the convolution explorer (src/src/app.rs): the application     *)
(* state ConvolutionApp with its operations (file drop, kernel-shape       *)
(* selection, split_kernels, run_all_convolutions, reset, kernel slider)   *)
(* and the numeric functions convolve_same, build_preview, resize_nearest  *)
(* and min_max.                                                            *)
(*                                                                         *)
(* Number representation.  The program computes in f32.  Here every real   *)
(* is an exact integer multiple of a fixed unit:                           *)
(*   - a pixel of the slide, p/255.0, is the integer p (unit 1/Scale);     *)
(*   - a kernel weight, (p/255.0)*2.0-1.0, is 2p-Scale (unit 1/Scale);     *)
(*   - a response value is an integer in units of 1/(Scale*Scale).         *)
(* Sums and products are therefore exact; the rounding error of f32        *)
(* arithmetic is not represented.                                          *)
(***************************************************************************)
EXTENDS Integers, Sequences, FiniteSets, TLC

\* ---------------------------------------------------------------- bounds
\* The images dropped on the application take the pixel patterns
\* 0..(AppPatterns - 1).
AppPatterns == 1
\* Sides of the images given to the numeric functions are 1..MaxSide.
MaxSide == 6
\* Pixel / value patterns of the inputs of the numeric functions.
MaxPattern == 3
\* Sides of the response maps given to build_preview are 1..MaxMapSide.
MaxMapSide == 5
\* build_preview is called with max_dim in 1..MaxDim.
MaxDim == 3
\* Sides of the sheets given to split_kernels are 3, 6, .. 3 * MaxSheetCells.
MaxSheetCells == 4

\* ------------------------------------------------------ program constants
\* const PREVIEW_MAX_SIZE: usize = 256;
PREVIEW_MAX_SIZE == 256
\* The divisor 255.0 of the pixel-to-float conversions: the model's unit.
Scale == 255
\* The largest byte, the factor 255.0 and the clamp bound of build_preview.
ByteMax == 255
\* The floor 1e-6 of the normalisation range is 1/EpsDen.
EpsDen == 1000000
\* f32::INFINITY: above every value of the model (f32::NEG_INFINITY is
\* its negation).
F32_INFINITY == 2147483647

\* ---------------------------------------------------------------- helpers
Min(a, b) == IF a < b THEN a ELSE b

Max(a, b) == IF a > b THEN a ELSE b

Abs(a) == IF a < 0 THEN -a ELSE a

\* ------------------------------------------------------------ KernelShape
KernelShape == {"ThreeBySix", "SixByThree"}

shape_width(shape) == IF shape = "ThreeBySix" THEN 3 ELSE 6

shape_height(shape) == IF shape = "ThreeBySix" THEN 6 ELSE 3

\* ------------------------------------------------------------- GrayImage
\* A decoded 8-bit grayscale image: row-major pixels, pixels[y*width+x+1].
GrayImage(w, h, px) == [width |-> w, height |-> h, pixels |-> px]

get_pixel(img, x, y) == img.pixels[y * img.width + x + 1]

\* fn gray_to_f32: each pixel p becomes p/255.0, the integer p in units of
\* 1/Scale.
gray_to_f32(gray) == [i \in 1..Len(gray.pixels) |-> gray.pixels[i]]

\* ---------------------------------------------------------- split_kernels
\* Variant of centered that leaves the intensity in [0, 1].
centered_unsigned(px) == px

\* let centered = (px as f32 / 255.0) * 2.0 - 1.0, in units of 1/Scale.
centered(px) == px * 2 - Scale

\* The loops of split_kernels are written as the sequence of the values
\* they push, in the order they push them: the values of iteration n
\* followed by those of the iterations after it.

\* The loop "for kx in 0..kw" at grid cell (row, col), kernel row ky, from
\* iteration kx on: kernel.push(centered) for the sheet pixel
\* (col * kw + kx, row * kh + ky).
RECURSIVE split_kx(_, _, _, _, _, _, _)
split_kx(sheet, kw, kh, row, col, ky, kx) ==
    IF kx >= kw THEN <<>>
    ELSE LET px == get_pixel(sheet, col * kw + kx, row * kh + ky)
         IN <<centered(px)>> \o split_kx(sheet, kw, kh, row, col, ky, kx + 1)

\* The loop "for ky in 0..kh" at grid cell (row, col), from iteration ky
\* on: the kernel being filled.
RECURSIVE split_ky(_, _, _, _, _, _)
split_ky(sheet, kw, kh, row, col, ky) ==
    IF ky >= kh THEN <<>>
    ELSE split_kx(sheet, kw, kh, row, col, ky, 0)
         \o split_ky(sheet, kw, kh, row, col, ky + 1)

\* The loop "for col in 0..self.kernel_cols" of grid row row, from
\* iteration col on: self.kernels.push(kernel).
RECURSIVE split_col(_, _, _, _, _, _)
split_col(sheet, kw, kh, cols, row, col) ==
    IF col >= cols THEN <<>>
    ELSE <<split_ky(sheet, kw, kh, row, col, 0)>>
         \o split_col(sheet, kw, kh, cols, row, col + 1)

\* The loop "for row in 0..self.kernel_rows", from iteration row on.
RECURSIVE split_row(_, _, _, _, _, _)
split_row(sheet, kw, kh, rows, cols, row) ==
    IF row >= rows THEN <<>>
    ELSE split_col(sheet, kw, kh, cols, row, 0)
         \o split_row(sheet, kw, kh, rows, cols, row + 1)

\* The divisibility test of split_kernels (the negation of its early return).
divisible(sheet, kw, kh) == sheet.width % kw = 0 /\ sheet.height % kh = 0

\* ---------------------------------------------------------- convolve_same
\* Variant of anchor that rounds the half up.
anchor_ceil(k) == (k + 1) \div 2

\* let kcx = kw / 2; let kcy = kh / 2: the kernel's anchor along one axis
\* (usize division).
anchor(k) == k \div 2

\* The loop "for kx in 0..kw" at output pixel (x, y), kernel row ky, from
\* iteration kx on: what it adds to acc.  A term is added only when the
\* sampled coordinate (ix, iy) is inside the image.  (Sums are exact here,
\* so the order of the additions is immaterial.)
RECURSIVE conv_kx(_, _, _, _, _, _, _, _, _, _)
conv_kx(input, width, height, kernel, kw, kh, x, y, ky, kx) ==
    IF kx >= kw THEN 0
    ELSE LET kcx == anchor(kw)
             kcy == anchor(kh)
             ix == x + kx - kcx
             iy == y + ky - kcy
             i == iy * width + ix
             k == ky * kw + kx
         IN (IF ix >= 0 /\ iy >= 0 /\ ix < width /\ iy < height
             THEN input[i + 1] * kernel[k + 1]
             ELSE 0)
            + conv_kx(input, width, height, kernel, kw, kh, x, y, ky, kx + 1)

\* The loop "for ky in 0..kh" at output pixel (x, y), from iteration ky on:
\* what it adds to acc.
RECURSIVE conv_ky(_, _, _, _, _, _, _, _, _)
conv_ky(input, width, height, kernel, kw, kh, x, y, ky) ==
    IF ky >= kh THEN 0
    ELSE conv_kx(input, width, height, kernel, kw, kh, x, y, ky, 0)
         + conv_ky(input, width, height, kernel, kw, kh, x, y, ky + 1)

\* fn convolve_same: let mut output = vec![0.0; width * height]; the loops
\* "for y in 0..height", "for x in 0..width" assign output[y * width + x]
\* once for every pixel (x, y), each from acc = 0.0.
convolve_same(input, width, height, kernel, kw, kh) ==
    [o \in 1..(width * height) |->
        LET x == (o - 1) % width
            y == (o - 1) \div width
        IN conv_ky(input, width, height, kernel, kw, kh, x, y, 0)]

\* ---------------------------------------------------------- build_preview
\* let scale = (max_dim as f32 / width.max(height) as f32).min(1.0), as the
\* exact fraction <<numerator, denominator>>.
preview_scale(width, height, max_dim) ==
    LET m == Max(width, height)
    IN IF max_dim < m THEN <<max_dim, m>> ELSE <<1, 1>>

\* (n as f32 * scale).round() as usize: f32::round rounds half away from
\* zero; taken on the exact product.
round_scaled(n, scale) == (2 * n * scale[1] + scale[2]) \div (2 * scale[2])

\* Variant of preview_dims without the .max(1).
preview_dims_unfloored(width, height, max_dim) ==
    LET scale == preview_scale(width, height, max_dim)
    IN <<round_scaled(width, scale), round_scaled(height, scale)>>

\* The output dimensions of build_preview, each .max(1).
preview_dims(width, height, max_dim) ==
    LET scale == preview_scale(width, height, max_dim)
    IN <<Max(round_scaled(width, scale), 1), Max(round_scaled(height, scale), 1)>>

\* The source coordinate resize_nearest reads for a destination coordinate:
\* let sx = x * src_w / dst_w (and sy likewise), usize division.
nearest(x, src_n, dst_n) == (x * src_n) \div dst_n

\* fn resize_nearest: let mut out = vec![0.0; dst_w * dst_h]; the loops
\* "for y in 0..dst_h", "for x in 0..dst_w" assign out[y * dst_w + x] once
\* for every destination pixel (x, y).
resize_nearest(src, src_w, src_h, dst_w, dst_h) ==
    [o \in 1..(dst_w * dst_h) |->
        LET x == (o - 1) % dst_w
            y == (o - 1) \div dst_w
            sx == nearest(x, src_w, dst_w)
            sy == nearest(y, src_h, dst_h)
        IN src[sy * src_w + sx + 1]]

\* fn min_max: the loop "for &v in values" over values[lo..hi], from
\* (INFINITY, NEG_INFINITY): <<min_v, max_v>> after it.  One value passes
\* the two tests "if v < min_v { min_v = v; }" and "if v > max_v { max_v =
\* v; }"; a longer range is taken by halves, the second half's tests
\* against the first half's result.
RECURSIVE min_max_loop(_, _, _)
min_max_loop(values, lo, hi) ==
    IF lo > hi THEN <<F32_INFINITY, -F32_INFINITY>>
    ELSE IF lo = hi
    THEN LET v == values[lo]
         IN <<IF v < F32_INFINITY THEN v ELSE F32_INFINITY,
              IF v > -F32_INFINITY THEN v ELSE -F32_INFINITY>>
    ELSE LET mid == (lo + hi) \div 2
             fst == min_max_loop(values, lo, mid)
             snd == min_max_loop(values, mid + 1, hi)
         IN <<IF snd[1] < fst[1] THEN snd[1] ELSE fst[1],
              IF snd[2] > fst[2] THEN snd[2] ELSE fst[2]>>

\* fn min_max: when either is still infinite after the loop (an empty
\* slice) the result is (0.0, 0.0).
min_max(values) ==
    LET mm == min_max_loop(values, 1, Len(values))
    IN IF Abs(mm[1]) = F32_INFINITY \/ Abs(mm[2]) = F32_INFINITY
       THEN <<0, 0>>
       ELSE mm

\* let range = (max_v - min_v).max(1e-6), as the exact fraction
\* <<numerator, denominator>> in units of 1/(Scale*Scale): the spread is an
\* integer number of units and 1e-6 is Scale*Scale/EpsDen units.
preview_range(min_v, max_v) ==
    LET spread == max_v - min_v
    IN IF spread >= (Scale * Scale + EpsDen - 1) \div EpsDen
       THEN <<spread, 1>>
       ELSE <<Scale * Scale, EpsDen>>

\* Variant of to_byte that rounds to the nearest integer.
to_byte_rounded(v, min_v, range) ==
    LET q == (2 * (v - min_v) * ByteMax * range[2] + range[1]) \div (2 * range[1])
    IN Max(0, Min(ByteMax, q))

\* (((v - min_v) / range) * 255.0).clamp(0.0, 255.0) as u8: the cast
\* truncates toward zero.
to_byte(v, min_v, range) ==
    LET q == ((v - min_v) * ByteMax * range[2]) \div range[1]
    IN Max(0, Min(ByteMax, q))

\* fn build_preview: (out_w, out_h, bytes).
build_preview(src, width, height, max_dim) ==
    LET dims == preview_dims(width, height, max_dim)
        out_w == dims[1]
        out_h == dims[2]
        resized == resize_nearest(src, width, height, out_w, out_h)
        mm == min_max(resized)
        range == preview_range(mm[1], mm[2])
    IN <<out_w, out_h,
         [i \in 1..Len(resized) |-> to_byte(resized[i], mm[1], range)]>>

\* -------------------------------------------------- run_all_convolutions
\* response.iter().map(|v| v.abs()).sum::<f32>() over response[lo..hi]; a
\* range of several values is summed by halves (the sum is exact).
RECURSIVE sum_abs(_, _, _)
sum_abs(response, lo, hi) ==
    IF lo > hi THEN 0
    ELSE IF lo = hi THEN Abs(response[lo])
    ELSE LET mid == (lo + hi) \div 2
         IN sum_abs(response, lo, mid) + sum_abs(response, mid + 1, hi)

\* let score = sum / response.len() as f32, kept as the exact fraction
\* <<sum, len>> (the sum in units of 1/(Scale*Scale)).
score_of(response) == <<sum_abs(response, 1, Len(response)), Len(response)>>

\* The body of "for kernel in &self.kernels": the ConvolutionPreview pushed
\* for one kernel.
preview_of(input, width, height, kernel, kw, kh) ==
    LET response == convolve_same(input, width, height, kernel, kw, kh)
        built == build_preview(response, width, height, PREVIEW_MAX_SIZE)
    IN [score |-> score_of(response), width |-> built[1],
        height |-> built[2], bytes |-> built[3]]

\* Variant of run_loop that stops one kernel short.
RECURSIVE run_loop_short(_, _, _, _, _, _, _)
run_loop_short(input, width, height, kernels, kw, kh, i) ==
    IF i >= Len(kernels) THEN <<>>
    ELSE <<preview_of(input, width, height, kernels[i], kw, kh)>>
         \o run_loop_short(input, width, height, kernels, kw, kh, i + 1)

\* The loop "for kernel in &self.kernels" from kernel i on:
\* self.previews.push(..) of each, in order.
RECURSIVE run_loop(_, _, _, _, _, _, _)
run_loop(input, width, height, kernels, kw, kh, i) ==
    IF i > Len(kernels) THEN <<>>
    ELSE <<preview_of(input, width, height, kernels[i], kw, kh)>>
         \o run_loop(input, width, height, kernels, kw, kh, i + 1)

\* ------------------------------------------------------------------ state
\* The fields of ConvolutionApp.  An Option is a sequence: <<>> for None,
\* <<v>> for Some(v).  LoadedImage is [name, gray]; its texture is a handle
\* of the display layer and is left out.
VARIABLES slide, kernels_sheet, kernel_shape, kernels, kernel_rows,
          kernel_cols, previews, selected_kernel, status

\* History variables, written where the program builds the lists and
\* cleared where it clears them; the program never reads them.
\*   bank_shape: the kernel shape split_kernels read (kw, kh) when it built
\*               the present kernel bank, "None" while the bank is cleared.
\*   run_with:   Some([slide, sheet, shape]) the slide, the sheet and the
\*               kernel shape in place when run_all_convolutions built the
\*               present previews, None while they are cleared.
VARIABLES bank_shape, run_with

\* The call under study of a specification of one numeric function: its
\* arguments and, once called, Some(its return value).
VARIABLES call, ret

app_vars == <<slide, kernels_sheet, kernel_shape, kernels, kernel_rows,
              kernel_cols, previews, selected_kernel, status>>

hist_vars == <<bank_shape, run_with>>

fn_vars == <<call, ret>>

vars == <<app_vars, hist_vars, fn_vars>>

\* A status message: the text and the values formatted into it.
Status(msg, args) == [msg |-> msg, args |-> args]

MSG_INITIAL == "Drop two PNG files in the window: first the histological slide, then the kernels sheet."
MSG_BOTH_FILLED == "Both image slots are already filled. Use Reset to load different files."
MSG_UNREADABLE == "Could not read dropped file bytes."
MSG_LOADED == "Image loaded. Choose kernel shape and press Split kernels."
MSG_DECODE_FAILED == "Failed to decode PNG: {e}"
MSG_NO_SHEET == "Load the kernels sheet first."
MSG_NOT_DIVISIBLE == "Kernel sheet size {}x{} is not divisible by kernel size {}x{}."
MSG_SPLIT == "Split into {} kernels ({} rows x {} cols)."
MSG_NO_SLIDE == "Load the histological slide first."
MSG_NO_KERNELS == "Split kernels first."
MSG_COMPUTED == "Computed {} convolution maps."

\* ----------------------------------------------------------------- inputs
\* The pixel at (x, y) of the test image of pattern pat: two gradients that
\* take the values 0 and 255, the constant 255 and the constant 0.
Pixel(pat, x, y) ==
    CASE pat % 4 = 0 -> (51 * x + 85 * y + 7 * (pat \div 4)) % 256
      [] pat % 4 = 1 -> 255
      [] pat % 4 = 2 -> (97 * x + 31 * y + 128 + 7 * (pat \div 4)) % 256
      [] OTHER -> 0

\* What image::load_from_memory(..).to_luma8() gives for a well-formed PNG
\* of w x h pixels.
Decoded(w, h, pat) ==
    GrayImage(w, h, [i \in 1..(w * h) |-> Pixel(pat, (i - 1) % w, (i - 1) \div w)])

\* A dropped file: whether extract_bytes finds its bytes, and what
\* image::load_from_memory makes of them (None: a decode error).
File(name, readable, decoded) ==
    [name |-> name, readable |-> readable, decoded |-> decoded]

\* The sizes of the images dropped on the application: divisible by 3x6
\* only, by both shapes (a 2x2 or 1x4 grid), by neither.
AppSizes == {<<3, 6>>, <<6, 12>>, <<4, 4>>}

DroppedFiles ==
    {File(<<"img", sz[1], sz[2], pat>>, TRUE, <<Decoded(sz[1], sz[2], pat)>>) :
        sz \in AppSizes, pat \in 0..(AppPatterns - 1)}
    \cup {File(<<"corrupt">>, TRUE, <<>>), File(<<"unreadable">>, FALSE, <<>>)}

\* ------------------------------------------------------------- operations
\* impl Default for LoadedImage
LoadedImageDefault == [name |-> <<>>, gray |-> <<>>]

\* The clamp of update() before the slider is shown:
\* if !previews.is_empty() { selected = selected.min(previews.len() - 1) }
clamp_selected(sel, pv) == IF pv # <<>> THEN Min(sel, Len(pv) - 1) ELSE sel

\* impl Default for ConvolutionApp; also "*self = Self::default()".
Init ==
    /\ slide = LoadedImageDefault
    /\ kernels_sheet = LoadedImageDefault
    /\ kernel_shape = "ThreeBySix"
    /\ kernels = <<>>
    /\ kernel_rows = 0
    /\ kernel_cols = 0
    /\ previews = <<>>
    /\ selected_kernel = 0
    /\ status = Status(MSG_INITIAL, <<>>)
    /\ bank_shape = "None"
    /\ run_with = <<>>
    /\ call = <<>>
    /\ ret = <<>>

\* fn load_png_into_slot: the slot takes the image, kernels and previews
\* are cleared (kernel_rows and kernel_cols are not touched); a decode error
\* only sets the status.
load_png_into_slot(file, is_slide) ==
    IF file.decoded # <<>>
    THEN /\ slide' = IF is_slide
                     THEN [name |-> file.name, gray |-> file.decoded]
                     ELSE slide
         /\ kernels_sheet' = IF is_slide
                             THEN kernels_sheet
                             ELSE [name |-> file.name, gray |-> file.decoded]
         /\ kernels' = <<>>
         /\ previews' = <<>>
         /\ selected_kernel' = 0
         /\ status' = Status(MSG_LOADED, <<>>)
         /\ bank_shape' = "None"
         /\ run_with' = <<>>
         /\ UNCHANGED <<kernel_shape, kernel_rows, kernel_cols>>
    ELSE /\ status' = Status(MSG_DECODE_FAILED, <<>>)
         /\ selected_kernel' = clamp_selected(selected_kernel, previews)
         /\ UNCHANGED <<slide, kernels_sheet, kernel_shape, kernels,
                        kernel_rows, kernel_cols, previews, hist_vars>>

\* Variant of handle_dropped_file that loads a file into the sheet slot
\* whenever the slide slot is filled.
handle_dropped_file_refill(file) ==
    IF ~file.readable
    THEN /\ status' = Status(MSG_UNREADABLE, <<>>)
         /\ selected_kernel' = clamp_selected(selected_kernel, previews)
         /\ UNCHANGED <<slide, kernels_sheet, kernel_shape, kernels,
                        kernel_rows, kernel_cols, previews, hist_vars>>
    ELSE IF slide.gray = <<>>
    THEN load_png_into_slot(file, TRUE)
    ELSE load_png_into_slot(file, FALSE)

\* fn handle_dropped_files, for one dropped file (a drop of several files
\* runs this body once per file, in order): the slide slot is filled
\* first, then the sheet slot, and nothing is loaded once both are filled.
handle_dropped_file(file) ==
    IF ~file.readable
    THEN /\ status' = Status(MSG_UNREADABLE, <<>>)
         /\ selected_kernel' = clamp_selected(selected_kernel, previews)
         /\ UNCHANGED <<slide, kernels_sheet, kernel_shape, kernels,
                        kernel_rows, kernel_cols, previews, hist_vars>>
    ELSE IF slide.gray = <<>>
    THEN load_png_into_slot(file, TRUE)
    ELSE IF kernels_sheet.gray = <<>>
    THEN load_png_into_slot(file, FALSE)
    ELSE /\ status' = Status(MSG_BOTH_FILLED, <<>>)
         /\ selected_kernel' = clamp_selected(selected_kernel, previews)
         /\ UNCHANGED <<slide, kernels_sheet, kernel_shape, kernels,
                        kernel_rows, kernel_cols, previews, hist_vars>>

\* A frame of update() in which a file was dropped.
DropFile ==
    /\ \E file \in DroppedFiles : handle_dropped_file(file)
    /\ UNCHANGED fn_vars

\* A frame of update() in which a kernel-shape radio button was clicked:
\* ui.radio_value(&mut self.kernel_shape, ..) assigns the shape and nothing
\* else.
SelectShape ==
    /\ \E shape \in KernelShape :
          /\ shape # kernel_shape
          /\ kernel_shape' = shape
    /\ selected_kernel' = clamp_selected(selected_kernel, previews)
    /\ UNCHANGED <<slide, kernels_sheet, kernels, kernel_rows, kernel_cols,
                   previews, status, hist_vars, fn_vars>>

\* Variant of split_mismatch that clears the bank and the results before
\* it returns.
split_mismatch_clearing(sheet, kw, kh) ==
    /\ status' = Status(MSG_NOT_DIVISIBLE, <<sheet.width, sheet.height, kw, kh>>)
    /\ kernels' = <<>>
    /\ previews' = <<>>
    /\ selected_kernel' = 0
    /\ bank_shape' = "None"
    /\ run_with' = <<>>
    /\ UNCHANGED <<slide, kernels_sheet, kernel_shape, kernel_rows, kernel_cols>>

\* The early return of split_kernels on a sheet that the kernel shape does
\* not divide: the status is set and nothing else is written.
split_mismatch(sheet, kw, kh) ==
    /\ status' = Status(MSG_NOT_DIVISIBLE, <<sheet.width, sheet.height, kw, kh>>)
    /\ selected_kernel' = clamp_selected(selected_kernel, previews)
    /\ UNCHANGED <<slide, kernels_sheet, kernel_shape, kernels,
                   kernel_rows, kernel_cols, previews, hist_vars>>

\* fn split_kernels (the "Split kernels" button).
split_kernels ==
    IF kernels_sheet.gray = <<>>
    THEN /\ status' = Status(MSG_NO_SHEET, <<>>)
         /\ selected_kernel' = clamp_selected(selected_kernel, previews)
         /\ UNCHANGED <<slide, kernels_sheet, kernel_shape, kernels,
                        kernel_rows, kernel_cols, previews, hist_vars>>
    ELSE LET sheet == kernels_sheet.gray[1]
             kw == shape_width(kernel_shape)
             kh == shape_height(kernel_shape)
         IN IF ~divisible(sheet, kw, kh)
            THEN split_mismatch(sheet, kw, kh)
            ELSE /\ kernel_cols' = sheet.width \div kw
                 /\ kernel_rows' = sheet.height \div kh
                 /\ kernels' = split_row(sheet, kw, kh, kernel_rows',
                                         kernel_cols', 0)
                 /\ previews' = <<>>
                 /\ selected_kernel' = 0
                 /\ status' = Status(MSG_SPLIT, <<Len(kernels'), kernel_rows',
                                                  kernel_cols'>>)
                 /\ bank_shape' = kernel_shape
                 /\ run_with' = <<>>
                 /\ UNCHANGED <<slide, kernels_sheet, kernel_shape>>

SplitKernels ==
    /\ split_kernels
    /\ UNCHANGED fn_vars

\* Variant of run_all_convolutions without the test of an empty bank.
run_all_convolutions_unguarded ==
    IF slide.gray = <<>>
    THEN /\ status' = Status(MSG_NO_SLIDE, <<>>)
         /\ selected_kernel' = clamp_selected(selected_kernel, previews)
         /\ UNCHANGED <<slide, kernels_sheet, kernel_shape, kernels,
                        kernel_rows, kernel_cols, previews, hist_vars>>
    ELSE LET gray == slide.gray[1]
             input == gray_to_f32(gray)
             kw == shape_width(kernel_shape)
             kh == shape_height(kernel_shape)
         IN /\ previews' = run_loop(input, gray.width, gray.height, kernels,
                                    kw, kh, 1)
            /\ status' = Status(MSG_COMPUTED, <<Len(previews')>>)
            /\ selected_kernel' = clamp_selected(selected_kernel, previews')
            /\ run_with' = <<[slide |-> gray, sheet |-> kernels_sheet.gray,
                              shape |-> kernel_shape]>>
            /\ UNCHANGED <<slide, kernels_sheet, kernel_shape, kernels,
                           kernel_rows, kernel_cols, bank_shape>>

\* fn run_all_convolutions (the "Run all convolutions" button).
run_all_convolutions ==
    IF slide.gray = <<>>
    THEN /\ status' = Status(MSG_NO_SLIDE, <<>>)
         /\ selected_kernel' = clamp_selected(selected_kernel, previews)
         /\ UNCHANGED <<slide, kernels_sheet, kernel_shape, kernels,
                        kernel_rows, kernel_cols, previews, hist_vars>>
    ELSE IF kernels = <<>>
    THEN /\ status' = Status(MSG_NO_KERNELS, <<>>)
         /\ selected_kernel' = clamp_selected(selected_kernel, previews)
         /\ UNCHANGED <<slide, kernels_sheet, kernel_shape, kernels,
                        kernel_rows, kernel_cols, previews, hist_vars>>
    ELSE LET gray == slide.gray[1]
             input == gray_to_f32(gray)
             kw == shape_width(kernel_shape)
             kh == shape_height(kernel_shape)
         IN /\ previews' = run_loop(input, gray.width, gray.height, kernels,
                                    kw, kh, 1)
            /\ status' = Status(MSG_COMPUTED, <<Len(previews')>>)
            /\ selected_kernel' = clamp_selected(selected_kernel, previews')
            /\ run_with' = <<[slide |-> gray, sheet |-> kernels_sheet.gray,
                              shape |-> kernel_shape]>>
            /\ UNCHANGED <<slide, kernels_sheet, kernel_shape, kernels,
                           kernel_rows, kernel_cols, bank_shape>>

RunAllConvolutions ==
    /\ run_all_convolutions
    /\ UNCHANGED fn_vars

\* The "Reset" button: *self = Self::default().
Reset ==
    /\ slide' = LoadedImageDefault
    /\ kernels_sheet' = LoadedImageDefault
    /\ kernel_shape' = "ThreeBySix"
    /\ kernels' = <<>>
    /\ kernel_rows' = 0
    /\ kernel_cols' = 0
    /\ previews' = <<>>
    /\ selected_kernel' = 0
    /\ status' = Status(MSG_INITIAL, <<>>)
    /\ bank_shape' = "None"
    /\ run_with' = <<>>
    /\ UNCHANGED fn_vars

\* The "Kernel index" slider, shown while there are previews:
\* egui::Slider::new(&mut self.selected_kernel, 0..=self.previews.len() - 1).
SelectKernel ==
    /\ previews # <<>>
    /\ \E i \in 0..(Len(previews) - 1) :
          selected_kernel' = i
    /\ UNCHANGED <<slide, kernels_sheet, kernel_shape, kernels, kernel_rows,
                   kernel_cols, previews, status, hist_vars, fn_vars>>

Next ==
    \/ DropFile
    \/ SelectShape
    \/ SplitKernels
    \/ RunAllConvolutions
    \/ Reset
    \/ SelectKernel

Spec == Init /\ [][Next]_vars

\* ------------------------------------------ the application after two drops
\* The sides of the sheets of SpecSplit: the multiples of 3 up to
\* 3 * MaxSheetCells (a side of 3 or 9 is not divisible by 6).
SheetSides == {3 * n : n \in 1..MaxSheetCells}

\* The application after a slide and a kernels sheet were dropped on it,
\* for every sheet of the sides above and every pixel pattern.
InitSplit ==
    /\ slide = [name |-> <<"img", 1, 1, 0>>, gray |-> <<Decoded(1, 1, 0)>>]
    /\ \E w \in SheetSides, h \in SheetSides, pat \in 0..MaxPattern :
          kernels_sheet = [name |-> <<"img", w, h, pat>>,
                           gray |-> <<Decoded(w, h, pat)>>]
    /\ kernel_shape = "ThreeBySix"
    /\ kernels = <<>>
    /\ kernel_rows = 0
    /\ kernel_cols = 0
    /\ previews = <<>>
    /\ selected_kernel = 0
    /\ status = Status(MSG_LOADED, <<>>)
    /\ bank_shape = "None"
    /\ run_with = <<>>
    /\ call = <<>>
    /\ ret = <<>>

NextSplit ==
    \/ SelectShape
    \/ SplitKernels

\* Shape selections and splits of the loaded sheet.
SpecSplit == InitSplit /\ [][NextSplit]_vars

\* ------------------------------------------------- convolve_same, called
\* A kernel as split_kernels cuts it from a sheet of exactly one cell.
TestKernel(pat, shape) ==
    split_ky(Decoded(shape_width(shape), shape_height(shape), pat),
             shape_width(shape), shape_height(shape), 0, 0, 0)

\* The arguments run_all_convolutions passes to convolve_same, for every
\* slide of sides 1..MaxSide, every pixel pattern and every kernel shape.
InitConv ==
    /\ slide = LoadedImageDefault
    /\ kernels_sheet = LoadedImageDefault
    /\ kernel_shape = "ThreeBySix"
    /\ kernels = <<>>
    /\ kernel_rows = 0
    /\ kernel_cols = 0
    /\ previews = <<>>
    /\ selected_kernel = 0
    /\ status = Status(MSG_INITIAL, <<>>)
    /\ bank_shape = "None"
    /\ run_with = <<>>
    /\ \E w \in 1..MaxSide, h \in 1..MaxSide, pat \in 0..MaxPattern,
          kpat \in 0..MaxPattern, shape \in KernelShape :
          call = [input |-> gray_to_f32(Decoded(w, h, pat)),
                  width |-> w, height |-> h,
                  kernel |-> TestKernel(kpat, shape),
                  kw |-> shape_width(shape), kh |-> shape_height(shape)]
    /\ ret = <<>>

\* The call returns.
CallConvolve ==
    /\ ret = <<>>
    /\ ret' = <<convolve_same(call.input, call.width, call.height,
                              call.kernel, call.kw, call.kh)>>
    /\ UNCHANGED <<app_vars, hist_vars, call>>

SpecConv == InitConv /\ [][CallConvolve]_vars

\* ------------------------------------------------- build_preview, called
\* The value at index i (from 0) of the test response map of pattern pat,
\* in units of 1/(Scale*Scale): three levels with one exactly halfway, a
\* constant map, and two maps of mixed sign.
MapValue(pat, i) ==
    CASE pat % 4 = 0 -> (i % 3) - 1 + (pat \div 4)
      [] pat % 4 = 1 -> 5
      [] pat % 4 = 2 -> ((i * i) % 7) * 1000 - 2000
      [] OTHER -> 65025 - ((5 * i) % 11) * 13005

\* build_preview called on every response map of sides 1..MaxMapSide, with
\* max_dim in 1..MaxDim.
InitPreview ==
    /\ slide = LoadedImageDefault
    /\ kernels_sheet = LoadedImageDefault
    /\ kernel_shape = "ThreeBySix"
    /\ kernels = <<>>
    /\ kernel_rows = 0
    /\ kernel_cols = 0
    /\ previews = <<>>
    /\ selected_kernel = 0
    /\ status = Status(MSG_INITIAL, <<>>)
    /\ bank_shape = "None"
    /\ run_with = <<>>
    /\ \E w \in 1..MaxMapSide, h \in 1..MaxMapSide, pat \in 0..MaxPattern,
          max_dim \in 1..MaxDim :
          call = [src |-> [i \in 1..(w * h) |-> MapValue(pat, i - 1)],
                  width |-> w, height |-> h, max_dim |-> max_dim]
    /\ ret = <<>>

\* The call returns.
CallBuildPreview ==
    /\ ret = <<>>
    /\ ret' = <<build_preview(call.src, call.width, call.height, call.max_dim)>>
    /\ UNCHANGED <<app_vars, hist_vars, call>>

SpecPreview == InitPreview /\ [][CallBuildPreview]_vars

\* =================================================================== claims
\* The values of a sequence.
Range(seq) == {seq[i] : i \in 1..Len(seq)}

\* The sum of the values of the function f over the finite set S of its
\* arguments.
RECURSIVE SumOver(_, _)
SumOver(f, S) ==
    IF S = {} THEN 0
    ELSE LET t == CHOOSE t \in S : TRUE
         IN f[t] + SumOver(f, S \ {t})

\* The kernel positions <<kx, ky>> whose sampled coordinate, for output
\* pixel (x, y) of call c, falls inside [0, width) x [0, height).
TapsInside(c, x, y) ==
    {t \in (0..(c.kw - 1)) \X (0..(c.kh - 1)) :
        /\ x + t[1] - (c.kw \div 2) \in 0..(c.width - 1)
        /\ y + t[2] - (c.kh \div 2) \in 0..(c.height - 1)}

\* The sum the response holds at (x, y): over the positions inside,
\* input[y+ky-kcy][x+kx-kcx] * kernel[ky*kw+kx].
ExpectedResponse(c, x, y) ==
    LET S == TapsInside(c, x, y)
        term == [t \in S |->
                    c.input[(y + t[2] - (c.kh \div 2)) * c.width
                            + (x + t[1] - (c.kw \div 2)) + 1]
                    * c.kernel[t[2] * c.kw + t[1] + 1]]
    IN SumOver(term, S)

\* C1: convolve_same returns width*height values, whatever the kernel
\* shape, and the value at (x, y) is the sum over kx in [0,kw), ky in
\* [0,kh) of input[y+ky-kcy][x+kx-kcx] * kernel[ky*kw+kx], kcx = floor(kw/2),
\* kcy = floor(kh/2), the terms sampled outside the image being skipped.
C1_ConvolveSame ==
    ret # <<>> =>
        /\ Len(ret[1]) = call.width * call.height
        /\ \A x \in 0..(call.width - 1), y \in 0..(call.height - 1) :
              ret[1][y * call.width + x + 1] = ExpectedResponse(call, x, y)

\* C1 witness: a returned map with a pixel that all kw*kh positions reach,
\* a border pixel with skipped positions, and a non-zero response.
C1_Witness ==
    /\ ret # <<>>
    /\ \E x \in 0..(call.width - 1), y \in 0..(call.height - 1) :
          /\ Cardinality(TapsInside(call, x, y)) = call.kw * call.kh
          /\ ret[1][y * call.width + x + 1] # 0
    /\ \E x \in 0..(call.width - 1), y \in 0..(call.height - 1) :
          /\ Cardinality(TapsInside(call, x, y)) < call.kw * call.kh
          /\ ret[1][y * call.width + x + 1] # 0

\* The bank the claim describes for a sheet and a shape: C = width/kw,
\* R = height/kh, R*C kernels of kw*kh weights in [-1, 1], the kernel at
\* row*C+col holding at ky*kw+kx the weight (p/255)*2-1 (2p-255 in units of
\* 1/255) of the sheet pixel p at (col*kw+kx, row*kh+ky).
BankOfSheet(sheet, shape, ks, rows, cols) ==
    LET kw == shape_width(shape)
        kh == shape_height(shape)
        C == sheet.width \div kw
        R == sheet.height \div kh
    IN /\ cols = C
       /\ rows = R
       /\ Len(ks) = R * C
       /\ \A row \in 0..(R - 1), col \in 0..(C - 1) :
             LET kernel == ks[row * C + col + 1]
             IN /\ Len(kernel) = kw * kh
                /\ \A ky \in 0..(kh - 1), kx \in 0..(kw - 1) :
                      LET p == sheet.pixels[(row * kh + ky) * sheet.width
                                            + (col * kw + kx) + 1]
                          w == kernel[ky * kw + kx + 1]
                      IN /\ w = 2 * p - 255
                         /\ w >= -255
                         /\ w <= 255

\* C2: a bank split from a sheet whose width is divisible by kw and whose
\* height by kh has C = width/kw columns, R = height/kh rows and exactly
\* R*C kernels of kw*kh weights in [-1, 1], in row-major grid order, each
\* weight (p/255)*2-1 of its sheet pixel.
C2_SplitKernels ==
    bank_shape # "None" =>
        /\ kernels_sheet.gray # <<>>
        /\ divisible(kernels_sheet.gray[1], shape_width(bank_shape),
                     shape_height(bank_shape))
        /\ BankOfSheet(kernels_sheet.gray[1], bank_shape, kernels,
                       kernel_rows, kernel_cols)

\* C2 witness: a split bank of several rows and columns whose weights
\* reach both ends of the range.
C2_Witness ==
    /\ bank_shape # "None"
    /\ kernel_rows >= 2
    /\ kernel_cols >= 2
    /\ \E i \in 1..Len(kernels) : -255 \in Range(kernels[i])
    /\ \E i \in 1..Len(kernels) : 255 \in Range(kernels[i])

\* C3, as claimed: non-empty results were produced by a run made with the
\* currently loaded target image, the currently loaded sheet image and the
\* currently selected kernel shape.
C3_ResultsAreCurrent ==
    previews # <<>> =>
        run_with = <<[slide |-> slide.gray[1], sheet |-> kernels_sheet.gray,
                      shape |-> kernel_shape]>>

\* C4: the results list is empty or has one entry per kernel of the bank,
\* entry i being the preview computed from kernel i (on the loaded slide,
\* with the kernel shape of the run).
C4_ResultsAlignedWithBank ==
    /\ Len(previews) = 0 \/ Len(previews) = Len(kernels)
    /\ previews # <<>> =>
          /\ run_with # <<>>
          /\ slide.gray = <<run_with[1].slide>>
          /\ \A i \in 1..Len(previews) :
                previews[i] = preview_of(gray_to_f32(run_with[1].slide),
                                         run_with[1].slide.width,
                                         run_with[1].slide.height,
                                         kernels[i],
                                         shape_width(run_with[1].shape),
                                         shape_height(run_with[1].shape))

\* C4 witness: results of a run over a bank of several kernels, not all
\* alike.
C4_Witness ==
    /\ Len(previews) >= 2
    /\ Len(previews) = Len(kernels)
    /\ previews[1] # previews[2]

\* A step of split_kernels on a loaded sheet that the selected kernel
\* shape does not divide.
FailedSplitStep ==
    /\ kernels_sheet.gray # <<>>
    /\ ~divisible(kernels_sheet.gray[1], shape_width(kernel_shape),
                  shape_height(kernel_shape))
    /\ SplitKernels

\* C5, as claimed: after a failed split attempt the kernel list and the
\* results list are empty.
C5_FailedSplitClears ==
    status.msg = MSG_NOT_DIVISIBLE => (kernels = <<>> /\ previews = <<>>)

\* C5, amended: a split on a sheet that the kernel shape does not divide
\* reports the sheet and kernel dimensions, produces no kernels, and
\* leaves the kernel bank, its row and column counts and the results as
\* they were.
C5_FailedSplitKeepsBank ==
    [][FailedSplitStep =>
          /\ status' = Status(MSG_NOT_DIVISIBLE,
                              <<kernels_sheet.gray[1].width,
                                kernels_sheet.gray[1].height,
                                shape_width(kernel_shape),
                                shape_height(kernel_shape)>>)
          /\ UNCHANGED <<kernels, kernel_rows, kernel_cols, previews,
                         selected_kernel, kernel_shape, slide, kernels_sheet>>]_vars

\* C5 witness: the state after a failed split attempt that found a bank
\* and results in place.
C5_Witness ==
    /\ status.msg = MSG_NOT_DIVISIBLE
    /\ kernels # <<>>
    /\ previews # <<>>

\* C6: split_kernels with no sheet loaded, run_all_convolutions with no
\* target loaded, and run_all_convolutions with a target but an empty bank
\* set the status message and leave the kernel list, the row and column
\* counts, the results, the selected kernel index and the selected kernel
\* shape (and the images) unchanged.
C6_GuardFailuresAreNoOps ==
    [][/\ (kernels_sheet.gray = <<>> /\ SplitKernels) =>
              /\ status' = Status(MSG_NO_SHEET, <<>>)
              /\ UNCHANGED <<kernels, kernel_rows, kernel_cols, previews,
                             selected_kernel, kernel_shape, slide, kernels_sheet>>
       /\ (slide.gray = <<>> /\ RunAllConvolutions) =>
              /\ status' = Status(MSG_NO_SLIDE, <<>>)
              /\ UNCHANGED <<kernels, kernel_rows, kernel_cols, previews,
                             selected_kernel, kernel_shape, slide, kernels_sheet>>
       /\ (slide.gray # <<>> /\ kernels = <<>> /\ RunAllConvolutions) =>
              /\ status' = Status(MSG_NO_KERNELS, <<>>)
              /\ UNCHANGED <<kernels, kernel_rows, kernel_cols, previews,
                             selected_kernel, kernel_shape, slide, kernels_sheet>>
      ]_vars

\* C6 witness: the state after a run refused for its empty bank, with a
\* target loaded and the second kernel shape selected.
C6_Witness ==
    /\ status = Status(MSG_NO_KERNELS, <<>>)
    /\ slide.gray # <<>>
    /\ kernels = <<>>
    /\ kernel_shape = "SixByThree"

\* The least and the greatest of the values of a non-empty sequence.
Least(seq) == CHOOSE m \in Range(seq) : \A v \in Range(seq) : m <= v

Greatest(seq) == CHOOSE m \in Range(seq) : \A v \in Range(seq) : m >= v

\* The downsampled values of the call of build_preview that returned.
Downsampled == resize_nearest(call.src, call.width, call.height, ret[1][1], ret[1][2])

\* b is (d / range) * 255 rounded to the nearest integer, for a value d above
\* the minimum and range = max(spread, 1e-6): b - 1/2 <= 255*d/range <
\* b + 1/2.  Values are whole units of 1/(Scale*Scale), which is more than
\* 1e-6: a spread below 1e-6 is 0, and then d = 0.
IsNearestByte(b, d, spread) ==
    /\ b \in 0..255
    /\ IF spread = 0 THEN b = 0
       ELSE /\ (2 * b - 1) * spread <= 2 * 255 * d
            /\ 2 * 255 * d < (2 * b + 1) * spread

\* b is (d / range) * 255 with its fraction dropped: b <= 255*d/range < b+1.
IsTruncatedByte(b, d, spread) ==
    /\ b \in 0..255
    /\ IF spread = 0 THEN b = 0
       ELSE /\ b * spread <= 255 * d
            /\ 255 * d < (b + 1) * spread

\* C7, as claimed: build_preview maps each downsampled value v to
\* clamp(0, 255, round((v - min_v) / range * 255)), rounding to the nearest
\* integer (a value exactly halfway maps to 128).
C7_BytesRounded ==
    ret # <<>> =>
        LET vals == Downsampled
            min_v == Least(vals)
            max_v == Greatest(vals)
        IN \A i \in 1..Len(vals) :
              IsNearestByte(ret[1][3][i], vals[i] - min_v, max_v - min_v)

\* C7, amended: build_preview maps each downsampled value v to
\* (v - min_v) / range * 255 with the fraction dropped; the minimum maps to
\* 0, the maximum to 255 when max_v - min_v >= 1e-6, and a value exactly
\* halfway (127.5) to 127.
C7_BytesTruncated ==
    ret # <<>> =>
        LET vals == Downsampled
            min_v == Least(vals)
            max_v == Greatest(vals)
        IN /\ Len(ret[1][3]) = Len(vals)
           /\ \A i \in 1..Len(vals) :
                 /\ IsTruncatedByte(ret[1][3][i], vals[i] - min_v, max_v - min_v)
                 /\ vals[i] = min_v => ret[1][3][i] = 0
                 /\ (vals[i] = max_v /\ max_v > min_v) => ret[1][3][i] = 255
                 /\ (2 * (vals[i] - min_v) = max_v - min_v /\ max_v > min_v)
                       => ret[1][3][i] = 127

\* C7 witness: a returned preview of a map that holds its minimum, its
\* maximum and a value exactly halfway between them.
C7_Witness ==
    /\ ret # <<>>
    /\ LET vals == Downsampled
           min_v == Least(vals)
           max_v == Greatest(vals)
       IN /\ max_v > min_v
          /\ \E i \in 1..Len(vals) : 2 * (vals[i] - min_v) = max_v - min_v

\* C8: for width, height, max_dim >= 1 build_preview returns dimensions
\* with 1 <= out_w <= max_dim, 1 <= out_h <= max_dim, out_w <= width,
\* out_h <= height, exactly out_w*out_h bytes, and every source index
\* (x*width/out_w, y*height/out_h) it reads lies inside the source map; a
\* 1000x1 map with max_dim 256 gives out_w = 256, out_h = 1.
C8_PreviewDimensions ==
    /\ preview_dims(1000, 1, 256) = <<256, 1>>
    /\ \A x \in 0..255 : nearest(x, 1000, 256) \in 0..999
    /\ ret # <<>> =>
          LET out_w == ret[1][1]
              out_h == ret[1][2]
          IN /\ 1 <= out_w /\ out_w <= call.max_dim /\ out_w <= call.width
             /\ 1 <= out_h /\ out_h <= call.max_dim /\ out_h <= call.height
             /\ Len(ret[1][3]) = out_w * out_h
             /\ \A x \in 0..(out_w - 1), y \in 0..(out_h - 1) :
                   LET sx == (x * call.width) \div out_w
                       sy == (y * call.height) \div out_h
                   IN /\ sx \in 0..(call.width - 1)
                      /\ sy \in 0..(call.height - 1)
                      /\ sy * call.width + sx + 1 \in 1..Len(call.src)
                      /\ nearest(x, call.width, out_w) = sx
                      /\ nearest(y, call.height, out_h) = sy

\* C8 witness: a returned preview that was shrunk along the long side and
\* whose short side, scaled, rounds to 0 and is held at 1.
C8_Witness ==
    /\ ret # <<>>
    /\ ret[1][1] < call.width
    /\ ret[1][1] = call.max_dim
    /\ 2 * call.height * call.max_dim < call.width
    /\ ret[1][2] = 1

\* C9: the number of kernels held is kernel_rows * kernel_cols and every
\* kernel has kw*kh = 18 weights.
C9_BankMatchesGrid ==
    /\ Len(kernels) = kernel_rows * kernel_cols
    /\ \A i \in 1..Len(kernels) : Len(kernels[i]) = 18

\* C9 witness: a bank of two rows and two columns in place when a later
\* drop is refused.
C9_Witness ==
    /\ kernel_rows = 2
    /\ kernel_cols = 2
    /\ Len(kernels) = 4
    /\ status = Status(MSG_BOTH_FILLED, <<>>)

\* C10, as claimed: the kernel shape run_all_convolutions passed to
\* convolve_same for the present results is the shape with which the
\* present kernel bank was split.
C10_RunUsesBankShape ==
    run_with # <<>> => run_with[1].shape = bank_shape

====
